---------------------------- MODULE Spec2Model ----------------------------
(***************************************************************************)
(* Model of the rating engine of src/main.py (class HyakuninisshuRating    *)
(* and the run driven by main()).                                          *)
(*                                                                         *)
(* Numbers.  Python floats are modelled as exact rationals with the one    *)
(* denominator SCALE: a rating r is held as the integer r * SCALE, a score *)
(* s in [0,1] as s * SCALE.  SCALE is a multiple of every denominator the  *)
(* performance score can produce for the card counts of the model, so the  *)
(* sums, products and the one division of calculate_performance_score and  *)
(* update_ratings are exact.  The logistic of calculate_expected_score is  *)
(* transcendental; it is modelled by its values on a grid of rating        *)
(* differences with linear interpolation between them (LogisticTable).     *)
(*                                                                         *)
(* Strings.  A player name is a sequence of characters, so that            *)
(* str.strip() and sorted() are computed.  The result tokens are written   *)
(* in ASCII:  "kachi" = 勝, "shouri" = 勝利, "maru" = 〇, "make" = 負,      *)
(* "haiboku" = 敗北, "batsu" = ✕, and "hikiwake" (引き分け) stands for a    *)
(* token outside both sets.                                                *)
(***************************************************************************)
EXTENDS Integers, Sequences, FiniteSets, TLC

(***************************************************************************)
(* Bounds of the model.                                                    *)
(***************************************************************************)
\* cards captured by one player range over 0..MaxCards
MaxCards == 2
\* match numbers range over 1..MaxMatch
MaxMatch == 2

(***************************************************************************)
(* Configuration: HyakuninisshuRating.__init__ defaults.                   *)
(***************************************************************************)
initial_rating == 1500
k_factor == 32
\* card_weight is a float in [0,1]; the model holds it in tenths (0.3 = 3/10)
WeightDen == 10
default_card_weight == 3

(***************************************************************************)
(* Fixed-point arithmetic.                                                 *)
(***************************************************************************)
RECURSIVE Gcd(_, _)
Gcd(a, b) == IF b = 0 THEN a ELSE Gcd(b, a % b)

Lcm(a, b) == (a * b) \div Gcd(a, b)

RECURSIVE LcmUpTo(_)
LcmUpTo(n) == IF n <= 1 THEN 1 ELSE Lcm(n, LcmUpTo(n - 1))

\* resolution of the expected score below the resolution of the performance score
ExpectedFine == 10

\* 2 * WeightDen * T divides SCALE for every total T of two card counts
SCALE == 2 * WeightDen * LcmUpTo(2 * MaxCards) * ExpectedFine

Min(a, b) == IF a <= b THEN a ELSE b
Max(a, b) == IF a >= b THEN a ELSE b

(***************************************************************************)
(* calculate_expected_score: 1 / (1 + 10 ** ((rating_b - rating_a) / 400)) *)
(* LogisticTable[i] = round(10000 / (1 + 10 ** (-(i-1) * GridStep / 400))) *)
(***************************************************************************)
GridStep == 50
LogisticTable ==
    << 5000, 5715, 6401, 7034, 7597, 8083, 8490, 8823, 9091,
       9302, 9468, 9595, 9693, 9768, 9825, 9868, 9901 >>

TableAt(i) == (LogisticTable[i] * SCALE) \div 10000

\* the expected score of the higher rated player, d = rating difference >= 0
Logistic(d) ==
    LET cell == GridStep * SCALE
        i    == d \div cell
    IN  IF i + 2 > Len(LogisticTable)
        THEN TableAt(Len(LogisticTable))
        ELSE TableAt(i + 1)
             + ((TableAt(i + 2) - TableAt(i + 1)) * (d - i * cell)) \div cell

\* rating_a used for both players: always 1/2
calculate_expected_score_SameRating(rating_a, rating_b) ==
    Logistic(rating_a - rating_a)

calculate_expected_score(rating_a, rating_b) ==
    IF rating_a >= rating_b
    THEN Logistic(rating_a - rating_b)
    ELSE SCALE - Logistic(rating_b - rating_a)

(***************************************************************************)
(* Result tokens (process_matches win_results / lose_results, and the      *)
(* comparisons of calculate_performance_score and update_ratings).         *)
(***************************************************************************)
win_results == {"kachi", "shouri", "maru"}
lose_results == {"make", "haiboku", "batsu"}
Tokens == win_results \cup lose_results \cup {"hikiwake"}

IsWin(result) == result = "shouri" \/ result = "kachi" \/ result = "maru"
IsLoss(result) == result = "haiboku" \/ result = "make" \/ result = "batsu"

(***************************************************************************)
(* calculate_performance_score                                             *)
(***************************************************************************)
BaseScore(result) ==
    IF IsWin(result) THEN SCALE
    ELSE IF IsLoss(result) THEN 0
    ELSE SCALE \div 2

\* lines 67-71: card_ratio as the fraction num / den
CardRatio(cards_won, cards_lost) ==
    LET total_cards == cards_won + cards_lost
    IN  IF total_cards > 0
        THEN [num |-> cards_won, den |-> total_cards]
        ELSE [num |-> 1, den |-> 2]

\* lines 80-83: (1 - w) * base_score + w * card_ratio, clamped to [0, 1]
WeightedScore(w, base_score, card_ratio) ==
    LET final_score ==
            ((WeightDen - w) * base_score * card_ratio.den + w * card_ratio.num * SCALE)
                \div (WeightDen * card_ratio.den)
    IN  Max(0, Min(SCALE, final_score))

\* without the equal-capture case of lines 74-77
calculate_performance_score_NoEqualCase(w, result, cards_won, cards_lost) ==
    WeightedScore(w, BaseScore(result), CardRatio(cards_won, cards_lost))

calculate_performance_score(w, result, cards_won, cards_lost) ==
    IF cards_won = cards_lost
    THEN BaseScore(result)
    ELSE WeightedScore(w, BaseScore(result), CardRatio(cards_won, cards_lost))


(***************************************************************************)
(* Python dicts (insertion ordered): a sequence of [k, v] records with     *)
(* distinct keys.  d[k] = v replaces in place or appends.                  *)
(***************************************************************************)
DictKeys(d) == {d[i].k : i \in 1..Len(d)}
DictHas(d, key) == key \in DictKeys(d)
DictGet(d, key) == d[CHOOSE i \in 1..Len(d) : d[i].k = key].v
DictPut(d, key, val) ==
    IF DictHas(d, key)
    THEN [i \in 1..Len(d) |-> IF d[i].k = key THEN [k |-> key, v |-> val] ELSE d[i]]
    ELSE Append(d, [k |-> key, v |-> val])

(***************************************************************************)
(* The object: self.player_ratings, self.player_stats, self.match_history. *)
(***************************************************************************)
NewObject == [player_ratings |-> <<>>, player_stats |-> <<>>, match_history |-> <<>>]

\* lines 100-106: a first-time player gets the initial rating and zero counters
EnsurePlayer(self, player) ==
    IF DictHas(self.player_ratings, player)
    THEN self
    ELSE [self EXCEPT
            !.player_ratings = DictPut(@, player, initial_rating * SCALE),
            !.player_stats = DictPut(@, player, [wins |-> 0, losses |-> 0])]

\* player_stats[player][field] += 1
IncStat(stats, player, field) ==
    DictPut(stats, player, [DictGet(stats, player) EXCEPT ![field] = @ + 1])

\* lines 128-134
UpdateStats(stats, player_a, player_b, result_a) ==
    IF IsWin(result_a)
    THEN IncStat(IncStat(stats, player_a, "wins"), player_b, "losses")
    ELSE IF IsLoss(result_a)
    THEN IncStat(IncStat(stats, player_a, "losses"), player_b, "wins")
    ELSE stats

\* line 122 with expected_a in place of expected_b
update_ratings_WrongExpected(self, w, player_a, player_b, result_a, cards_a, cards_b) ==
    LET s1 == EnsurePlayer(EnsurePlayer(self, player_a), player_b)
        rating_a == DictGet(s1.player_ratings, player_a)
        rating_b == DictGet(s1.player_ratings, player_b)
        expected_a == calculate_expected_score(rating_a, rating_b)
        actual_score_a == calculate_performance_score(w, result_a, cards_a, cards_b)
        actual_score_b == SCALE - actual_score_a
        new_rating_a == rating_a + k_factor * (actual_score_a - expected_a)
        new_rating_b == rating_b + k_factor * (actual_score_b - expected_a)
    IN  [player_ratings |->
            DictPut(DictPut(s1.player_ratings, player_a, new_rating_a),
                    player_b, new_rating_b),
         player_stats |-> UpdateStats(s1.player_stats, player_a, player_b, result_a),
         match_history |-> Append(s1.match_history,
            [player_a |-> player_a, player_b |-> player_b, result_a |-> result_a,
             cards_a |-> cards_a, cards_b |-> cards_b,
             actual_score_a |-> actual_score_a, expected_score_a |-> expected_a,
             rating_a_before |-> rating_a, rating_b_before |-> rating_b,
             rating_a_after |-> new_rating_a, rating_b_after |-> new_rating_b,
             rating_change_a |-> new_rating_a - rating_a,
             rating_change_b |-> new_rating_b - rating_b])]

update_ratings(self, w, player_a, player_b, result_a, cards_a, cards_b) ==
    LET s1 == EnsurePlayer(EnsurePlayer(self, player_a), player_b)
        rating_a == DictGet(s1.player_ratings, player_a)
        rating_b == DictGet(s1.player_ratings, player_b)
        expected_a == calculate_expected_score(rating_a, rating_b)
        expected_b == SCALE - expected_a
        actual_score_a == calculate_performance_score(w, result_a, cards_a, cards_b)
        actual_score_b == SCALE - actual_score_a
        new_rating_a == rating_a + k_factor * (actual_score_a - expected_a)
        new_rating_b == rating_b + k_factor * (actual_score_b - expected_b)
    IN  [player_ratings |->
            DictPut(DictPut(s1.player_ratings, player_a, new_rating_a),
                    player_b, new_rating_b),
         player_stats |-> UpdateStats(s1.player_stats, player_a, player_b, result_a),
         match_history |-> Append(s1.match_history,
            [player_a |-> player_a, player_b |-> player_b, result_a |-> result_a,
             cards_a |-> cards_a, cards_b |-> cards_b,
             actual_score_a |-> actual_score_a, expected_score_a |-> expected_a,
             rating_a_before |-> rating_a, rating_b_before |-> rating_b,
             rating_a_after |-> new_rating_a, rating_b_after |-> new_rating_b,
             rating_change_a |-> new_rating_a - rating_a,
             rating_change_b |-> new_rating_b - rating_b])]

(***************************************************************************)
(* Names: str.strip() and the order sorted() uses.                         *)
(***************************************************************************)
CharCode(c) ==
    CASE c = " " -> 32 [] c = "A" -> 65 [] c = "B" -> 66 [] c = "C" -> 67 [] c = "D" -> 68

RECURSIVE StripLeft(_)
StripLeft(s) == IF s # <<>> /\ Head(s) = " " THEN StripLeft(Tail(s)) ELSE s

RECURSIVE StripRight(_)
StripRight(s) ==
    IF s # <<>> /\ s[Len(s)] = " " THEN StripRight(SubSeq(s, 1, Len(s) - 1)) ELSE s

Strip(s) == StripRight(StripLeft(s))

RECURSIVE StrLess(_, _)
StrLess(a, b) ==
    IF b = <<>> THEN FALSE
    ELSE IF a = <<>> THEN TRUE
    ELSE IF Head(a) # Head(b) THEN CharCode(Head(a)) < CharCode(Head(b))
    ELSE StrLess(Tail(a), Tail(b))

\* tuple(sorted([player, opponent]))
SortedPair(player, opponent) ==
    IF StrLess(opponent, player) THEN <<opponent, player>> ELSE <<player, opponent>>

(***************************************************************************)
(* process_matches, lines 212-217: dropna on the four columns, strip of    *)
(* the two names.  A raw row carries in na the columns that are null.      *)
(***************************************************************************)
RequiredColumns == {"player", "opponent", "result", "cards"}

CleanRow(row) ==
    [match_num |-> row.match_num, player |-> Strip(row.player),
     opponent |-> Strip(row.opponent), result |-> row.result, cards |-> row.cards,
     na |-> row.na]

CleanFrame(matches_df) ==
    LET kept == SelectSeq(matches_df, LAMBDA r : r.na \cap RequiredColumns = {})
    IN  [i \in 1..Len(kept) |-> CleanRow(kept[i])]

(***************************************************************************)
(* groupby('試合番号'): the keys in ascending order (sort=True), rows with  *)
(* a null key left out (dropna=True); each group keeps the frame's order.  *)
(***************************************************************************)
GroupKeySet(df) == {df[i].match_num : i \in {j \in 1..Len(df) : "match_num" \notin df[j].na}}

RECURSIVE SortedSeq(_)
SortedSeq(S) ==
    IF S = {} THEN <<>>
    ELSE LET m == CHOOSE x \in S : \A y \in S : x <= y
         IN  <<m>> \o SortedSeq(S \ {m})

\* groupby(..., sort=False): the keys in order of first appearance
RECURSIVE FirstAppearance(_, _)
FirstAppearance(df, seen) ==
    IF df = <<>> THEN <<>>
    ELSE IF "match_num" \in Head(df).na \/ Head(df).match_num \in seen
    THEN FirstAppearance(Tail(df), seen)
    ELSE <<Head(df).match_num>> \o FirstAppearance(Tail(df), seen \cup {Head(df).match_num})

GroupKeys_Unsorted(df) == FirstAppearance(df, {})

GroupKeys(df) == SortedSeq(GroupKeySet(df))

GroupOf(df, match_num) ==
    SelectSeq(df, LAMBDA r : "match_num" \notin r.na /\ r.match_num = match_num)

(***************************************************************************)
(* process_matches, lines 230-271: one row of a group.                     *)
(***************************************************************************)
\* the key without sorted(): (match_num, (player, opponent))
PairKey_Unsorted(match_num, row) == <<match_num, <<row.player, row.opponent>>>>

PairKey(match_num, row) == <<match_num, SortedPair(row.player, row.opponent)>>

OpponentRows(group, row) == SelectSeq(group, LAMBDA r : r.player = row.opponent)

\* only the first half of the condition of line 262
Contradiction_WinSideOnly(result, opponent_result) ==
    result \in win_results /\ opponent_result \notin lose_results

\* line 262
Contradiction(result, opponent_result) ==
    \/ (result \in win_results /\ opponent_result \notin lose_results)
    \/ (result \in lose_results /\ opponent_result \notin win_results)

RowOutcome(processed_pairs, match_num, group, row) ==
    IF PairKey(match_num, row) \in processed_pairs THEN "skipped"
    ELSE IF Len(OpponentRows(group, row)) = 0 THEN "missing"
    ELSE IF OpponentRows(group, row)[1].opponent # row.player THEN "mismatch"
    ELSE IF Contradiction(row.result, OpponentRows(group, row)[1].result)
    THEN "contradiction"
    ELSE "applied"

\* the players registered before the row is validated
RowEffect_RegistersFirst(self, processed_pairs, w, match_num, group, row) ==
    IF RowOutcome(processed_pairs, match_num, group, row) = "applied"
    THEN [self |-> update_ratings(self, w, row.player, row.opponent, row.result,
                                  row.cards, OpponentRows(group, row)[1].cards),
          processed_pairs |-> processed_pairs \cup {PairKey(match_num, row)}]
    ELSE IF RowOutcome(processed_pairs, match_num, group, row) = "skipped"
    THEN [self |-> self, processed_pairs |-> processed_pairs]
    ELSE [self |-> EnsurePlayer(EnsurePlayer(self, row.player), row.opponent),
          processed_pairs |-> processed_pairs]

\* the object and processed_pairs after the row
RowEffect(self, processed_pairs, w, match_num, group, row) ==
    IF RowOutcome(processed_pairs, match_num, group, row) = "applied"
    THEN [self |-> update_ratings(self, w, row.player, row.opponent, row.result,
                                  row.cards, OpponentRows(group, row)[1].cards),
          processed_pairs |-> processed_pairs \cup {PairKey(match_num, row)}]
    ELSE [self |-> self, processed_pairs |-> processed_pairs]

(***************************************************************************)
(* load_previous_ratings, lines 189-196: one checkpoint row.  bad holds    *)
(* the columns whose cell float() or int() cannot convert.                 *)
(***************************************************************************)
EntryMalformed(entry) == entry.bad \cap {"rating", "wins", "losses"} # {}

LoadEntryInto(self, entry) ==
    LET player == Strip(entry.player)
    IN  [self EXCEPT
            !.player_ratings = DictPut(@, player, entry.rating),
            !.player_stats = DictPut(@, player,
                                     [wins |-> entry.wins, losses |-> entry.losses])]

(***************************************************************************)
(* get_ratings_table: sorted(items, key=rating, reverse=True), a stable    *)
(* sort, so equal ratings keep the dict's order.                           *)
(***************************************************************************)
\* sorted(items, key=rating)[::-1]: descending, equal ratings in reverse dict order
RECURSIVE SortByRatingDesc_Reversed(_)
SortByRatingDesc_Reversed(items) ==
    IF items = <<>> THEN <<>>
    ELSE LET top == CHOOSE i \in 1..Len(items) :
                        /\ \A j \in 1..Len(items) : items[j].v <= items[i].v
                        /\ \A j \in (i + 1)..Len(items) : items[j].v < items[i].v
         IN  <<items[top]>>
             \o SortByRatingDesc_Reversed(SubSeq(items, 1, top - 1)
                                          \o SubSeq(items, top + 1, Len(items)))

RECURSIVE SortByRatingDesc(_)
SortByRatingDesc(items) ==
    IF items = <<>> THEN <<>>
    ELSE LET top == CHOOSE i \in 1..Len(items) :
                        /\ \A j \in 1..Len(items) : items[j].v <= items[i].v
                        /\ \A j \in 1..(i - 1) : items[j].v < items[i].v
         IN  <<items[top]>>
             \o SortByRatingDesc(SubSeq(items, 1, top - 1)
                                 \o SubSeq(items, top + 1, Len(items)))

TableRow(self, item) ==
    [player |-> item.k, rating |-> item.v,
     wins |-> DictGet(self.player_stats, item.k).wins,
     losses |-> DictGet(self.player_stats, item.k).losses,
     bad |-> {}]

get_ratings_table(self) ==
    LET sorted == SortByRatingDesc(self.player_ratings)
    IN  [i \in 1..Len(sorted) |-> TableRow(self, sorted[i])]

(***************************************************************************)
(* process_matches as one call: the groups in groupby order, the rows of   *)
(* each group in frame order.                                              *)
(***************************************************************************)
RECURSIVE ProcessRows(_, _, _, _, _)
ProcessRows(acc, w, match_num, group, i) ==
    IF i > Len(group) THEN acc
    ELSE ProcessRows(RowEffect(acc.self, acc.processed_pairs, w, match_num, group, group[i]),
                     w, match_num, group, i + 1)

RECURSIVE ProcessGroups(_, _, _, _)
ProcessGroups(acc, w, df, g) ==
    IF g > Len(GroupKeys(df)) THEN acc
    ELSE ProcessGroups(ProcessRows(acc, w, GroupKeys(df)[g], GroupOf(df, GroupKeys(df)[g]), 1),
                       w, df, g + 1)

process_matches(self, w, matches_df) ==
    IF Len(CleanFrame(matches_df)) = 0
    THEN self
    ELSE ProcessGroups([self |-> self, processed_pairs |-> {}], w,
                       CleanFrame(matches_df), 1).self

(***************************************************************************)
(* load_previous_ratings as one call: the rows in order up to the first    *)
(* one that raises.                                                        *)
(***************************************************************************)
RECURSIVE LoadRows(_, _, _)
LoadRows(self, rows, i) ==
    IF i > Len(rows) \/ EntryMalformed(rows[i]) THEN self
    ELSE LoadRows(LoadEntryInto(self, rows[i]), rows, i + 1)

load_previous_ratings(self, sheet) ==
    IF sheet.given /\ sheet.readable THEN LoadRows(self, sheet.rows, 1) ELSE self

(***************************************************************************)
(* Inputs of a run: the match sheet and the optional checkpoint sheet.     *)
(***************************************************************************)
NameA == <<"A">>
NameB == <<"B">>
NameC == <<"C">>
NameD == <<"D">>
Names == {NameA, NameB, NameC}
\* names as typed into a cell, before strip
RawNames == {NameA, <<" ", "A">>, NameB, <<"B", " ">>}

Cards == 0..MaxCards
\* no card or every card
EdgeCards == {0, MaxCards}
Matches == 1..MaxMatch

Row(m, p, o, r, c) ==
    [match_num |-> m, player |-> p, opponent |-> o, result |-> r, cards |-> c, na |-> {}]

Complement(r) ==
    CASE r = "kachi" -> "make" [] r = "make" -> "kachi"
      [] r = "shouri" -> "haiboku" [] r = "haiboku" -> "shouri"
      [] r = "maru" -> "batsu" [] r = "batsu" -> "maru"

\* the two rows of one played match, the first from p's side
Block(m, p, o, r, cp, co) == <<Row(m, p, o, r, cp), Row(m, o, p, Complement(r), co)>>

\* any rows at all, a few tokens
SomeTokens == {"kachi", "batsu", "hikiwake"}
AnyRows == {Row(m, p, o, r, c) : m \in Matches, p \in Names, o \in Names,
                                 r \in SomeTokens, c \in EdgeCards}
AnyFrames == {<<>>} \cup {<<r>> : r \in AnyRows} \cup {<<r1, r2>> : r1 \in AnyRows, r2 \in AnyRows}

\* the two rows of one pair, every token on both sides, both row orders
PairFrames ==
    {<<Row(1, NameA, NameB, r1, c1), Row(1, NameB, NameA, r2, c2)>> :
        r1 \in Tokens, r2 \in Tokens, c1 \in Cards, c2 \in Cards}
    \cup
    {<<Row(1, NameB, NameA, r2, c2), Row(1, NameA, NameB, r1, c1)>> :
        r1 \in Tokens, r2 \in Tokens, c1 \in Cards, c2 \in Cards}

\* two played matches, the rows in several orders; equal blocks are duplicated rows
FirstBlocks == {Block(m, NameA, NameB, r, cp, co) :
                    m \in Matches, r \in {"kachi", "make"}, cp \in Cards, co \in EdgeCards}
DistinctPairs == {po \in Names \X Names : po[1] # po[2]}
SecondBlocks == {Block(m, po[1], po[2], r, cp, co) :
                    m \in Matches, po \in DistinctPairs,
                    r \in {"kachi"}, cp \in Cards, co \in EdgeCards}
TwoMatchFrames ==
    UNION {{b1 \o b2, b2 \o b1, <<b2[1], b1[1], b1[2], b2[2]>>} :
                b1 \in FirstBlocks, b2 \in SecondBlocks}

\* two played matches with no player in common
IndependentFrames ==
    {Block(1, NameA, NameB, r, cp, co) \o Block(m, NameC, NameD, r, cp, co) :
        m \in Matches, r \in {"kachi", "make"}, cp \in Cards, co \in Cards}

\* rows with blank cells and untrimmed names
RawRows == {[match_num |-> 1, player |-> p, opponent |-> o, result |-> r,
             cards |-> 1, na |-> n] :
                p \in RawNames, o \in RawNames, r \in {"kachi", "make"},
                n \in {{}, {"result"}, {"match_num"}}}
RawFrames == {<<r1, r2>> : r1 \in RawRows, r2 \in RawRows}

\* checkpoint sheets
Entries == {[player |-> p, rating |-> r * SCALE, wins |-> w, losses |-> 1, bad |-> b] :
                p \in {NameA, <<" ", "B">>}, r \in {initial_rating, initial_rating + 100},
                w \in {0, 2}, b \in {{}, {"wins"}}}
Checkpoints == {<<>>} \cup {<<e>> : e \in Entries}
                \cup {<<e1, e2>> : e1 \in Entries, e2 \in Entries}
CheckpointFrames ==
    {Block(1, po[1], po[2], r, 2, 1) :
        po \in {<<NameA, NameB>>, <<NameB, NameA>>, <<NameA, NameC>>},
        r \in {"kachi", "make"}}

\* the spec's scenarios 1 and 2: a 17-0 win and a 10-10 tiebreak win
ScenarioFrames == {Block(1, NameA, NameB, "kachi", 17, 0),
                   Block(1, NameA, NameB, "kachi", 10, 10)}

NoPrevious == [given |-> FALSE, readable |-> FALSE, rows |-> <<>>]

\* the sheets of a run that plays no further match
ZeroMatchFrames ==
    {<<>>, <<[match_num |-> 1, player |-> NameA, opponent |-> NameB,
              result |-> "kachi", cards |-> 1, na |-> {"opponent"}]>>}

\* runs of the program in one behaviour: the second resumes from the first's output
MaxRuns == 2

(***************************************************************************)
(* State.                                                                  *)
(***************************************************************************)
VARIABLES
    run,              \* which run of main() this is
    pc,               \* where main() is
    card_weight,      \* self.card_weight, in tenths
    previous,         \* args.previous and the sheet behind it
    input,            \* args.input_file and the sheet behind it
    player_ratings,   \* self.player_ratings
    player_stats,     \* self.player_stats
    match_history,    \* self.match_history
    processed_pairs,  \* process_matches: processed_pairs
    df,               \* process_matches: matches_df after dropna and strip
    gi,               \* process_matches: index of the group being iterated
    ri,               \* process_matches: index of the row in the group
    li,               \* load_previous_ratings: index of the row being loaded
    console,          \* what was printed
    saved             \* the sheets save_results wrote

vars == <<run, pc, card_weight, previous, input, player_ratings, player_stats,
          match_history, processed_pairs, df, gi, ri, li, console, saved>>

Self == [player_ratings |-> player_ratings, player_stats |-> player_stats,
         match_history |-> match_history]

SetSelf(self) ==
    /\ player_ratings' = self.player_ratings
    /\ player_stats' = self.player_stats
    /\ match_history' = self.match_history

Line(kind, num, player, opponent) ==
    [kind |-> kind, num |-> num, player |-> player, opponent |-> opponent]

Emit(line) == console' = Append(console, line)

NoSheets == [ratings |-> <<>>, history |-> <<>>, written |-> FALSE]

Init ==
    /\ run = 1
    /\ pc = "start"
    /\ \/ /\ card_weight = default_card_weight
          /\ previous = NoPrevious
          /\ \E rows \in AnyFrames \cup TwoMatchFrames \cup IndependentFrames
                          \cup RawFrames \cup ScenarioFrames :
                input = [readable |-> TRUE, rows |-> rows]
       \/ /\ card_weight \in {0, default_card_weight, WeightDen}
          /\ previous = NoPrevious
          /\ \E rows \in PairFrames : input = [readable |-> TRUE, rows |-> rows]
       \/ /\ card_weight = default_card_weight
          /\ \E cp \in Checkpoints : previous = [given |-> TRUE, readable |-> TRUE, rows |-> cp]
          /\ \E rows \in CheckpointFrames : input = [readable |-> TRUE, rows |-> rows]
       \/ /\ card_weight = default_card_weight
          /\ previous \in {NoPrevious, [given |-> TRUE, readable |-> FALSE, rows |-> <<>>]}
          /\ input \in {[readable |-> FALSE, rows |-> <<>>],
                        [readable |-> TRUE, rows |-> Block(1, NameA, NameB, "maru", 2, 0)]}
    /\ player_ratings = <<>>
    /\ player_stats = <<>>
    /\ match_history = <<>>
    /\ processed_pairs = {}
    /\ df = <<>>
    /\ gi = 0
    /\ ri = 0
    /\ li = 0
    /\ console = <<>>
    /\ saved = NoSheets

(***************************************************************************)
(* main(): the checkpoint (lines 328-330, load_previous_ratings).          *)
(***************************************************************************)
ProcessVarsUnchanged == UNCHANGED <<processed_pairs, df, gi, ri>>
InputsUnchanged == UNCHANGED <<run, card_weight, previous, input>>
SelfUnchanged == UNCHANGED <<player_ratings, player_stats, match_history>>

\* line 329: no --previous
SkipPrevious ==
    /\ pc = "start"
    /\ ~previous.given
    /\ pc' = "read"
    /\ UNCHANGED <<li, console, saved>>
    /\ InputsUnchanged /\ SelfUnchanged /\ ProcessVarsUnchanged

\* line 186 succeeds
LoadOpen ==
    /\ pc = "start"
    /\ previous.given /\ previous.readable
    /\ pc' = "load"
    /\ li' = 1
    /\ Emit(Line("load", 0, <<>>, <<>>))
    /\ UNCHANGED saved
    /\ InputsUnchanged /\ SelfUnchanged /\ ProcessVarsUnchanged

\* line 186 raises: lines 200-202
LoadOpenFail ==
    /\ pc = "start"
    /\ previous.given /\ ~previous.readable
    /\ pc' = "read"
    /\ Emit(Line("load_error", 0, <<>>, <<>>))
    /\ UNCHANGED <<li, saved>>
    /\ InputsUnchanged /\ SelfUnchanged /\ ProcessVarsUnchanged

\* lines 189-196 for one row
LoadEntry ==
    /\ pc = "load"
    /\ li <= Len(previous.rows)
    /\ ~EntryMalformed(previous.rows[li])
    /\ SetSelf(LoadEntryInto(Self, previous.rows[li]))
    /\ li' = li + 1
    /\ UNCHANGED <<pc, console, saved>>
    /\ InputsUnchanged /\ ProcessVarsUnchanged

\* float() or int() raises on the row: lines 200-202
LoadEntryFail ==
    /\ pc = "load"
    /\ li <= Len(previous.rows)
    /\ EntryMalformed(previous.rows[li])
    /\ pc' = "read"
    /\ Emit(Line("load_error", li, <<>>, <<>>))
    /\ UNCHANGED <<li, saved>>
    /\ InputsUnchanged /\ SelfUnchanged /\ ProcessVarsUnchanged

\* line 198
LoadDone ==
    /\ pc = "load"
    /\ li > Len(previous.rows)
    /\ pc' = "read"
    /\ Emit(Line("loaded", Len(previous.rows), <<>>, <<>>))
    /\ UNCHANGED <<li, saved>>
    /\ InputsUnchanged /\ SelfUnchanged /\ ProcessVarsUnchanged

(***************************************************************************)
(* main(): the match sheet (lines 332-338, load_excel_data).               *)
(***************************************************************************)
ReadInput ==
    /\ pc = "read"
    /\ input.readable
    /\ pc' = "process"
    /\ UNCHANGED <<li, console, saved>>
    /\ InputsUnchanged /\ SelfUnchanged /\ ProcessVarsUnchanged

\* load_excel_data returns None: sys.exit(1)
ReadFail ==
    /\ pc = "read"
    /\ ~input.readable
    /\ pc' = "exit"
    /\ Emit(Line("read_error", 0, <<>>, <<>>))
    /\ UNCHANGED <<li, saved>>
    /\ InputsUnchanged /\ SelfUnchanged /\ ProcessVarsUnchanged

(***************************************************************************)
(* process_matches                                                         *)
(***************************************************************************)
\* lines 212-223
ProcessStart ==
    /\ pc = "process"
    /\ df' = CleanFrame(input.rows)
    /\ IF Len(df') = 0
       THEN /\ Emit(Line("no_data", 0, <<>>, <<>>))
            /\ pc' = "report"
            /\ UNCHANGED <<processed_pairs, gi>>
       ELSE /\ processed_pairs' = {}
            /\ gi' = 1
            /\ pc' = "group"
            /\ UNCHANGED console
    /\ UNCHANGED <<ri, li, saved>>
    /\ InputsUnchanged /\ SelfUnchanged

\* line 226-227: the next group of the groupby
BeginGroup ==
    /\ pc = "group"
    /\ gi <= Len(GroupKeys(df))
    /\ Emit(Line("match", GroupKeys(df)[gi], <<>>, <<>>))
    /\ ri' = 1
    /\ pc' = "row"
    /\ UNCHANGED <<processed_pairs, df, gi, li, saved>>
    /\ InputsUnchanged /\ SelfUnchanged

\* the groupby is exhausted: process_matches returns
EndGroups ==
    /\ pc = "group"
    /\ gi > Len(GroupKeys(df))
    /\ pc' = "report"
    /\ UNCHANGED <<li, console, saved>>
    /\ InputsUnchanged /\ SelfUnchanged /\ ProcessVarsUnchanged

match_num == GroupKeys(df)[gi]
group == GroupOf(df, match_num)
player_data == group[ri]

\* the inner loop moves to the next row, or the outer loop to the next group
Advance ==
    IF ri < Len(group)
    THEN ri' = ri + 1 /\ UNCHANGED <<gi, pc>>
    ELSE gi' = gi + 1 /\ pc' = "group" /\ UNCHANGED ri

\* lines 231-271 for one row, by the way the row leaves the loop body
RowStep(outcome) ==
    /\ RowOutcome(processed_pairs, match_num, group, player_data) = outcome
    /\ LET after == RowEffect(Self, processed_pairs, card_weight, match_num,
                              group, player_data)
       IN  /\ SetSelf(after.self)
           /\ processed_pairs' = after.processed_pairs
    /\ IF outcome = "skipped"
       THEN UNCHANGED console
       ELSE Emit(Line(outcome, match_num, player_data.player, player_data.opponent))
    /\ Advance
    /\ UNCHANGED <<df, li, saved>>
    /\ InputsUnchanged

\* lines 241-242: the pair was already processed
RowSkip ==
    /\ pc = "row"
    /\ RowStep("skipped")

\* lines 246-248: the opponent has no row in the group
RowMissing ==
    /\ pc = "row"
    /\ RowStep("missing")

\* lines 255-257: the opponent's row names someone else
RowMismatch ==
    /\ pc = "row"
    /\ RowStep("mismatch")

\* lines 262-264: the two results contradict each other
RowContradiction ==
    /\ pc = "row"
    /\ RowStep("contradiction")

\* lines 267-271: update_ratings and processed_pairs.add
RowApply ==
    /\ pc = "row"
    /\ RowStep("applied")

(***************************************************************************)
(* main(), lines 346-365: the table is printed and the sheets are saved.   *)
(***************************************************************************)
SaveResults ==
    /\ pc = "report"
    /\ saved' = [ratings |-> get_ratings_table(Self), history |-> match_history,
                 written |-> TRUE]
    /\ pc' = "done"
    /\ UNCHANGED <<li, console>>
    /\ InputsUnchanged /\ SelfUnchanged /\ ProcessVarsUnchanged

(***************************************************************************)
(* The next month's run: a new process, a new object, the saved ratings    *)
(* sheet as --previous, and a match sheet with no playable row.            *)
(***************************************************************************)
NextRun ==
    /\ pc = "done"
    /\ run < MaxRuns
    /\ run' = run + 1
    /\ pc' = "start"
    /\ previous' = [given |-> TRUE, readable |-> TRUE, rows |-> saved.ratings]
    /\ \E rows \in ZeroMatchFrames : input' = [readable |-> TRUE, rows |-> rows]
    /\ SetSelf(NewObject)
    /\ processed_pairs' = {}
    /\ df' = <<>>
    /\ gi' = 0
    /\ ri' = 0
    /\ li' = 0
    /\ console' = <<>>
    /\ saved' = NoSheets
    /\ UNCHANGED card_weight

Next ==
    \/ SkipPrevious
    \/ LoadOpen
    \/ LoadOpenFail
    \/ LoadEntry
    \/ LoadEntryFail
    \/ LoadDone
    \/ ReadInput
    \/ ReadFail
    \/ ProcessStart
    \/ BeginGroup
    \/ EndGroups
    \/ RowSkip
    \/ RowMissing
    \/ RowMismatch
    \/ RowContradiction
    \/ RowApply
    \/ SaveResults
    \/ NextRun

Spec == Init /\ [][Next]_vars

(***************************************************************************)
(* Properties.                                                             *)
(***************************************************************************)
AppliedLines == SelectSeq(console, LAMBDA l : l.kind = "applied")

\* two rows of one match naming each other, two players, one win and one loss
ValidPairRows(r1, r2) ==
    /\ r1.match_num = r2.match_num
    /\ r1.player # r2.player
    /\ r1.opponent = r2.player /\ r2.opponent = r1.player
    /\ \/ IsWin(r1.result) /\ IsLoss(r2.result)
       \/ IsLoss(r1.result) /\ IsWin(r2.result)

\* a frame of four rows: the two rows of one valid pair, each of them twice
DuplicatedValidPair(f) ==
    /\ Len(f) = 4
    /\ \E i, j \in 1..4 :
        /\ ValidPairRows(f[i], f[j])
        /\ \A k \in 1..4 : f[k] \in {f[i], f[j]}
        /\ Cardinality({k \in 1..4 : f[k] = f[i]}) = 2

\* C1: in one pass of process_matches at most one update is applied per match
\* number and unordered player pair, every update leaves exactly one history
\* entry, and a frame holding a valid pair's two rows twice ends with one update.
C1_OneUpdatePerPair ==
    /\ \A i, j \in 1..Len(console) :
        (/\ i < j
         /\ console[i].kind = "applied" /\ console[j].kind = "applied"
         /\ console[i].num = console[j].num)
        => SortedPair(console[i].player, console[i].opponent)
             # SortedPair(console[j].player, console[j].opponent)
    /\ Len(AppliedLines) = Len(match_history)
    /\ (pc \in {"report", "done"} /\ DuplicatedValidPair(df)) => Len(match_history) = 1

C1_Witness ==
    /\ pc = "done" /\ run = 1
    /\ DuplicatedValidPair(df)
    /\ df[1] # df[2]
    /\ Len(match_history) = 1
    /\ Len(player_ratings) = 2

AreComplements(result, opponent_result) ==
    \/ IsWin(result) /\ IsLoss(opponent_result)
    \/ IsLoss(result) /\ IsWin(opponent_result)

\* C2: process_matches calls update_ratings for a row only when the row's result
\* and the opponent row's result are one win token and one loss token.
C2_UpdateOnlyForComplements ==
    [][(pc = "row" /\ match_history' # match_history
                    /\ player_data.player # player_data.opponent)
        => AreComplements(player_data.result,
                          OpponentRows(group, player_data)[1].result)]_vars

\* C3: when load_previous_ratings fails on a malformed row, the store is what it
\* was before the call (empty: main loads into the new object).
C3_FailedLoadLeavesStore ==
    (pc = "read" /\ console # <<>> /\ console[Len(console)].kind = "load_error")
        => (player_ratings = <<>> /\ player_stats = <<>>)

\* C4: a row rejected for a missing opponent row, an opponent mismatch or a
\* result contradiction changes no rating, no counter, creates no player,
\* appends no history entry and does not mark the pair processed.
C4_RejectedRowChangesNothing ==
    [][(/\ pc = "row"
        /\ RowOutcome(processed_pairs, match_num, group, player_data)
              \in {"missing", "mismatch", "contradiction"})
        => (/\ player_ratings' = player_ratings
            /\ player_stats' = player_stats
            /\ match_history' = match_history
            /\ processed_pairs' = processed_pairs)]_vars

\* P names O, O's row names a third player Q: nothing is stored for any of them
C4_Witness ==
    /\ pc = "done" /\ run = 1
    /\ Len(df) = 2
    /\ df[1].player = NameA /\ df[1].opponent = NameB
    /\ df[2].player = NameB /\ df[2].opponent = NameC
    /\ \E i \in 1..Len(console) : console[i].kind = "mismatch" /\ console[i].player = NameA
    /\ player_ratings = <<>> /\ match_history = <<>>

\* the store as the checkpoint left it
Loaded == load_previous_ratings(NewObject, previous)

\* the rating a player holds just before history entry j is applied
PriorRating(j, player) ==
    LET earlier == {i \in 1..(j - 1) : player \in {match_history[i].player_a,
                                                    match_history[i].player_b}}
    IN  IF earlier # {}
        THEN LET i == CHOOSE x \in earlier : \A y \in earlier : y <= x
             IN  IF match_history[i].player_b = player
                 THEN match_history[i].rating_b_after
                 ELSE match_history[i].rating_a_after
        ELSE IF DictHas(Loaded.player_ratings, player)
        THEN DictGet(Loaded.player_ratings, player)
        ELSE initial_rating * SCALE

\* C5: updates are applied in ascending match number whatever the order of the
\* rows, and each update starts from the ratings the earlier updates left.
C5_AscendingMatchOrder ==
    /\ \A i, j \in 1..Len(AppliedLines) : i < j => AppliedLines[i].num <= AppliedLines[j].num
    /\ Len(AppliedLines) = Len(match_history)
    /\ \A j \in 1..Len(match_history) :
        /\ match_history[j].rating_a_before = PriorRating(j, match_history[j].player_a)
        /\ match_history[j].rating_b_before = PriorRating(j, match_history[j].player_b)

\* the rows of match 2 come first in the sheet, match 1 is applied first
C5_Witness ==
    /\ pc = "done" /\ run = 1
    /\ Len(input.rows) = 4
    /\ input.rows[1].match_num = 2 /\ input.rows[4].match_num = 1
    /\ Len(match_history) = 2
    /\ AppliedLines[1].num = 1 /\ AppliedLines[2].num = 2
    /\ match_history[2].player_a = match_history[1].player_a
    /\ match_history[2].rating_a_before = match_history[1].rating_a_after
    /\ match_history[2].rating_a_before # initial_rating * SCALE

\* a dict as the mapping it holds, without its order
ItemSet(d) == {<<d[i].k, d[i].v>> : i \in 1..Len(d)}

MatchNumbers(f) == {f[i].match_num : i \in 1..Len(f)}
RowsOfMatch(f, m) == SelectSeq(f, LAMBDA r : r.match_num = m)
PlayersOf(rows) == {rows[i].player : i \in 1..Len(rows)}

\* four rows: two valid pairs under two match numbers, with a player in both
TwoValidMatches(f) ==
    /\ Len(f) = 4
    /\ \A i \in 1..4 : "match_num" \notin f[i].na
    /\ Cardinality(MatchNumbers(f)) = 2
    /\ \A m \in MatchNumbers(f) :
        /\ Len(RowsOfMatch(f, m)) = 2
        /\ ValidPairRows(RowsOfMatch(f, m)[1], RowsOfMatch(f, m)[2])
    /\ \E p \in PlayersOf(f) : \A m \in MatchNumbers(f) : p \in PlayersOf(RowsOfMatch(f, m))

\* the two match numbers of the frame exchanged
SwapMatchNumbers(f) ==
    [i \in 1..Len(f) |->
        [f[i] EXCEPT !.match_num = CHOOSE m \in MatchNumbers(f) : m # f[i].match_num]]

\* the performance score of player p in match m, from p's own row
ScoreOf(f, m, p) ==
    LET rows == RowsOfMatch(f, m)
        mine == IF rows[1].player = p THEN rows[1] ELSE rows[2]
        other == IF rows[1].player = p THEN rows[2] ELSE rows[1]
    IN  calculate_performance_score(card_weight, mine.result, mine.cards, other.cards)

\* the two matches are between the same two players and score them alike
SameMatchTwice(f) ==
    \A m1, m2 \in MatchNumbers(f) :
        /\ PlayersOf(RowsOfMatch(f, m1)) = PlayersOf(RowsOfMatch(f, m2))
        /\ \A p \in PlayersOf(f) : ScoreOf(f, m1, p) = ScoreOf(f, m2, p)

SwappedRatings ==
    process_matches(NewObject, card_weight, SwapMatchNumbers(input.rows)).player_ratings

C7_EqualCapture ==
    \A j \in 1..Len(match_history) :
        LET h == match_history[j]
        IN  /\ (h.cards_a = h.cards_b /\ IsWin(h.result_a)) => h.actual_score_a = SCALE
            /\ (h.cards_a = h.cards_b /\ IsLoss(h.result_a)) => h.actual_score_a = 0
            /\ (/\ IsWin(h.result_a)
                /\ h.cards_a = h.cards_b \/ h.cards_b = 0
                /\ h.rating_a_before = initial_rating * SCALE
                /\ h.rating_b_before = initial_rating * SCALE)
               => (/\ h.rating_a_after = 1516 * SCALE
                   /\ h.rating_b_after = 1484 * SCALE)

\* scenario 2: the 10-10 tiebreak win at card weight 0.3
C7_Witness ==
    /\ pc = "done" /\ run = 1
    /\ card_weight = default_card_weight
    /\ Len(match_history) = 1
    /\ match_history[1].cards_a = 10 /\ match_history[1].cards_b = 10
    /\ IsWin(match_history[1].result_a)
    /\ match_history[1].actual_score_a = SCALE
    /\ DictGet(player_ratings, NameA) = 1516 * SCALE
    /\ DictGet(player_ratings, NameB) = 1484 * SCALE

\* C8: the ratings table saved by one run, loaded as the checkpoint of a run
\* that plays no match, gives the same table: players, order, rating, wins, losses.
C8_CheckpointRoundTrip ==
    (run >= 2 /\ pc = "done") => saved.ratings = previous.rows

\* a table of three players, two of them with equal ratings, one with wins
C8_Witness ==
    /\ run = 2 /\ pc = "done"
    /\ Len(saved.ratings) >= 3
    /\ \E i \in 1..(Len(saved.ratings) - 1) :
            saved.ratings[i].rating = saved.ratings[i + 1].rating
    /\ \E i \in 1..Len(saved.ratings) : saved.ratings[i].wins > 0
    /\ saved.ratings = previous.rows

RECURSIVE SumRatings(_)
SumRatings(d) == IF d = <<>> THEN 0 ELSE Head(d).v + SumRatings(Tail(d))

\* the players update_ratings created
Created == Len(player_ratings) - Len(Loaded.player_ratings)

AfterLoad == pc \notin {"start", "load"}

RECURSIVE SelfMatchDrift(_)
SelfMatchDrift(history) ==
    IF history = <<>> THEN 0
    ELSE (IF Head(history).player_a = Head(history).player_b
          THEN Head(history).rating_change_b ELSE 0)
         + SelfMatchDrift(Tail(history))

PairFrame(f) ==
    /\ Len(f) = 2
    /\ "match_num" \notin f[1].na \cup f[2].na
    /\ f[1].match_num = f[2].match_num
    /\ f[1].player # f[2].player
    /\ f[1].opponent = f[2].player /\ f[2].opponent = f[1].player

OtherOrder == process_matches(Loaded, card_weight, <<input.rows[2], input.rows[1]>>)

\* C10: for the two rows of one pair the ratings and counters after
\* process_matches are the same whichever row comes first, whatever the tokens
\* and card counts: applied alike in both orders, or rejected in both.
C10_PerspectiveSymmetry ==
    (pc = "done" /\ run = 1 /\ Len(input.rows) = 2 /\ PairFrame(df))
        => /\ ItemSet(player_ratings) = ItemSet(OtherOrder.player_ratings)
           /\ ItemSet(player_stats) = ItemSet(OtherOrder.player_stats)
           /\ Len(match_history) = Len(OtherOrder.match_history)

\* the loser's row first, the players loaded with different ratings
C10_Witness ==
    /\ pc = "done" /\ run = 1
    /\ Len(input.rows) = 2 /\ PairFrame(df)
    /\ IsLoss(input.rows[1].result)
    /\ Len(match_history) = 1
    /\ match_history[1].rating_a_before # match_history[1].rating_b_before
    /\ match_history[1].cards_a # match_history[1].cards_b

\* the steps of process_matches end where the call as a whole ends
StepsAgreeWithCall ==
    (pc = "report") => Self = process_matches(Loaded, card_weight, input.rows)

=============================================================================
